---------------------------- MODULE Spec2Model ----------------------------
(***************************************************************************)
(* A model of datatool: DataAnalyzer (analyzer.py) and the command-line    *)
(* entry point main (cli.py).                                              *)
(*                                                                         *)
(* Python str values that the code inspects character by character (the   *)
(* command line, function names, arguments, column names, text cells) are  *)
(* sequences of one-character strings.  Fixed message fragments that the   *)
(* code only concatenates are TLA+ strings.                                *)
(***************************************************************************)
EXTENDS Integers, Sequences, FiniteSets, TLC

---------------------------------------------------------------------------
(* Characters *)

Digits == <<"0", "1", "2", "3", "4", "5", "6", "7", "8", "9">>

Lower == <<"a", "b", "c", "d", "e", "f", "g", "h", "i", "j", "k", "l", "m",
           "n", "o", "p", "q", "r", "s", "t", "u", "v", "w", "x", "y", "z">>

Upper == <<"A", "B", "C", "D", "E", "F", "G", "H", "I", "J", "K", "L", "M",
           "N", "O", "P", "Q", "R", "S", "T", "U", "V", "W", "X", "Y", "Z">>

\* The characters of the model in code-point order (str comparison order).
Ascii == <<"\t", "\n", " ", "!", "(", ")", "+", ",", "-", ".">> \o Digits
         \o <<"<", "=", ">">> \o Upper \o <<"_">> \o Lower \o <<"~">>

Range(s) == {s[i] : i \in DOMAIN s}

Ord(c) == CHOOSE i \in DOMAIN Ascii : Ascii[i] = c

\* str.strip() with no argument removes these.
Whitespace == {" ", "\t", "\n"}

\* The regular expression class \w.
WordChars == Range(Digits) \cup Range(Lower) \cup Range(Upper) \cup {"_"}

DigitVal(c) == (CHOOSE i \in DOMAIN Digits : Digits[i] = c) - 1

---------------------------------------------------------------------------
(* str operations used by run *)

RECURSIVE lstrip(_)
lstrip(s) ==
    IF s # <<>> /\ Head(s) \in Whitespace THEN lstrip(Tail(s)) ELSE s

RECURSIVE rstrip(_)
rstrip(s) ==
    IF s # <<>> /\ s[Len(s)] \in Whitespace
    THEN rstrip(SubSeq(s, 1, Len(s) - 1))
    ELSE s

strip(s) == rstrip(lstrip(s))

\* Index of the first occurrence of c in s, 0 when there is none.
Find(s, c) ==
    IF c \in Range(s) THEN CHOOSE i \in DOMAIN s :
                             s[i] = c /\ \A j \in 1..(i - 1) : s[j] # c
    ELSE 0

\* s.split(","): always at least one piece.
RECURSIVE split(_)
split(s) ==
    LET i == Find(s, ",")
    IN  IF i = 0 THEN <<s>>
        ELSE <<SubSeq(s, 1, i - 1)>> \o split(SubSeq(s, i + 1, Len(s)))

\* Length of the longest prefix of s made of \w characters.
RECURSIVE WordPrefix(_)
WordPrefix(s) ==
    IF s # <<>> /\ Head(s) \in WordChars THEN 1 + WordPrefix(Tail(s)) ELSE 0

NoGroup == [none |-> TRUE, text |-> <<>>]
Group(t) == [none |-> FALSE, text |-> t]

\* re.match(r"(\w+)(?:\((.*)\))?$", command) on an already stripped command.
\* \w+ is greedy, and giving characters back never helps: what follows a
\* shorter name is a \w character, which is neither "(" nor the end.  The
\* optional group needs "(" right after the name and ")" as the very last
\* character; "." matches anything but a newline, parentheses included.
\* The result is [ok, func, argstr]; argstr is NoGroup when the group did
\* not take part in the match.
re_match(command) ==
    LET k    == WordPrefix(command)
        rest == SubSeq(command, k + 1, Len(command))
        n    == Len(rest)
    IN  IF k = 0 THEN [ok |-> FALSE, func |-> <<>>, argstr |-> NoGroup]
        ELSE IF n = 0
          THEN [ok |-> TRUE, func |-> SubSeq(command, 1, k), argstr |-> NoGroup]
        ELSE IF /\ n >= 2
                /\ rest[1] = "("
                /\ rest[n] = ")"
                /\ \A i \in 2..(n - 1) : rest[i] # "\n"
          THEN [ok |-> TRUE, func |-> SubSeq(command, 1, k),
                argstr |-> Group(SubSeq(rest, 2, n - 1))]
        ELSE [ok |-> FALSE, func |-> <<>>, argstr |-> NoGroup]

\* args = [] if argstr is None or argstr.strip() == ""
\*        else [a.strip() for a in argstr.split(",")]
parse_args(argstr) ==
    IF argstr.none \/ strip(argstr.text) = <<>> THEN <<>>
    ELSE LET pieces == split(argstr.text)
         IN  [i \in DOMAIN pieces |-> strip(pieces[i])]


---------------------------------------------------------------------------
(* int(...) and float(...) on a str *)

Unsigned(s) == IF s # <<>> /\ Head(s) \in {"+", "-"} THEN Tail(s) ELSE s

Negative(s) == s # <<>> /\ Head(s) = "-"

\* Decimal digits with single underscores allowed between digits.
IsDigitRun(s) ==
    /\ s # <<>>
    /\ \A i \in DOMAIN s : s[i] \in Range(Digits) \cup {"_"}
    /\ s[1] # "_" /\ s[Len(s)] # "_"
    /\ \A i \in 1..(Len(s) - 1) : ~(s[i] = "_" /\ s[i + 1] = "_")

RECURSIVE DigitRunVal(_)
DigitRunVal(s) ==
    IF s = <<>> THEN 0
    ELSE LET init == SubSeq(s, 1, Len(s) - 1)
             last == s[Len(s)]
         IN  IF last = "_" THEN DigitRunVal(init)
             ELSE 10 * DigitRunVal(init) + DigitVal(last)

\* int(s) succeeds exactly on an optionally signed digit run (surrounding
\* whitespace is accepted too; run only passes stripped arguments).
int_ok(s) == IsDigitRun(Unsigned(strip(s)))

int_val(s) ==
    LET t == strip(s)
        v == DigitRunVal(Unsigned(t))
    IN  IF Negative(t) THEN 0 - v ELSE v

\* A float is modelled as a fraction num/den with den a power of ten, or as
\* NaN.  float(s) is modelled on plain decimal literals ("75", "-2", "7.5",
\* ".5", "7.") and on "nan"; exponent notation and the spellings of infinity
\* are not among the inputs of the model.
NaN == [nan |-> TRUE, num |-> 0, den |-> 1]
Frac(n, d) == [nan |-> FALSE, num |-> n, den |-> d]

RECURSIVE Pow10(_)
Pow10(k) == IF k = 0 THEN 1 ELSE 10 * Pow10(k - 1)

IsNanWord(s) == s = <<"n", "a", "n">>

float_ok(s) ==
    LET u == Unsigned(strip(s))
        p == Find(u, ".")
        ip == IF p = 0 THEN u ELSE SubSeq(u, 1, p - 1)
        fp == IF p = 0 THEN <<>> ELSE SubSeq(u, p + 1, Len(u))
    IN  \/ IsNanWord(u)
        \/ /\ ip # <<>> \/ fp # <<>>
           /\ ip = <<>> \/ IsDigitRun(ip)
           /\ fp = <<>> \/ IsDigitRun(fp)

float_val(s) ==
    LET t == strip(s)
        u == Unsigned(t)
        p == Find(u, ".")
        ip == IF p = 0 THEN u ELSE SubSeq(u, 1, p - 1)
        fp == IF p = 0 THEN <<>> ELSE SubSeq(u, p + 1, Len(u))
        k == Cardinality({i \in DOMAIN fp : fp[i] # "_"})
        v == DigitRunVal(ip) * Pow10(k) + DigitRunVal(fp)
    IN  IF IsNanWord(u) THEN NaN
        ELSE Frac(IF Negative(t) THEN 0 - v ELSE v, Pow10(k))

\* Lexicographic order of str by code point.
RECURSIVE StrLess(_, _)
StrLess(a, b) ==
    IF b = <<>> THEN FALSE
    ELSE IF a = <<>> THEN TRUE
    ELSE IF Head(a) = Head(b) THEN StrLess(Tail(a), Tail(b))
    ELSE Ord(Head(a)) < Ord(Head(b))

---------------------------------------------------------------------------
(* Names *)

T_head == <<"h", "e", "a", "d">>
T_tail == <<"t", "a", "i", "l">>
T_info == <<"i", "n", "f", "o">>
T_describe == <<"d", "e", "s", "c", "r", "i", "b", "e">>
T_shape == <<"s", "h", "a", "p", "e">>
T_columns == <<"c", "o", "l", "u", "m", "n", "s">>
T_dtypes == <<"d", "t", "y", "p", "e", "s">>
T_missing == <<"m", "i", "s", "s", "i", "n", "g">>
T_corr == <<"c", "o", "r", "r">>
T_cov == <<"c", "o", "v">>
T_mean == <<"m", "e", "a", "n">>
T_median == <<"m", "e", "d", "i", "a", "n">>
T_mode == <<"m", "o", "d", "e">>
T_std == <<"s", "t", "d">>
T_var == <<"v", "a", "r">>
T_sum == <<"s", "u", "m">>
T_max == <<"m", "a", "x">>
T_min == <<"m", "i", "n">>
T_count == <<"c", "o", "u", "n", "t">>
T_unique == <<"u", "n", "i", "q", "u", "e">>
T_nunique == <<"n", "u", "n", "i", "q", "u", "e">>
T_value_counts == <<"v", "a", "l", "u", "e", "_", "c", "o", "u", "n", "t", "s">>
T_groupby == <<"g", "r", "o", "u", "p", "b", "y">>
T_filter == <<"f", "i", "l", "t", "e", "r">>
T_plot == <<"p", "l", "o", "t">>
T_hist == <<"h", "i", "s", "t">>
T_scatter == <<"s", "c", "a", "t", "t", "e", "r">>
T_box == <<"b", "o", "x">>
T_heatmap == <<"h", "e", "a", "t", "m", "a", "p">>
T_help == <<"h", "e", "l", "p">>

\* Column names and cell texts of the datasets below.
T_dept == <<"d", "e", "p", "t">>
T_sal == <<"s", "a", "l">>
T_age == <<"a", "g", "e">>
T_eng == <<"e", "n", "g">>
T_sales == <<"s", "a", "l", "e", "s">>
T_ops == <<"o", "p", "s">>
T_hr == <<"h", "r">>

---------------------------------------------------------------------------
(* The table: pd.read_csv(filepath) *)

\* A DataFrame is [columns, dtype, rows]: the column labels in file order,
\* the dtype kind of each column ("i" integer, "O" object/text) and the rows
\* in order, each with its index label ix and its cells.  Every cell of the
\* datasets is present (no missing values).
Row(i, cells) == [ix |-> i, cell |-> cells]

\* The dataset of the specification's examples.
Staff ==
    [columns |-> <<T_dept, T_sal>>,
     dtype   |-> (T_dept :> "O") @@ (T_sal :> "i"),
     rows    |-> << Row(0, (T_dept :> T_eng) @@ (T_sal :> 100)),
                    Row(1, (T_dept :> T_eng) @@ (T_sal :> 200)),
                    Row(2, (T_dept :> T_sales) @@ (T_sal :> 50)) >>]

\* More rows than the default count of head and tail; repeated and
\* negative values.
Payroll ==
    [columns |-> <<T_dept, T_sal>>,
     dtype   |-> (T_dept :> "O") @@ (T_sal :> "i"),
     rows    |-> << Row(0, (T_dept :> T_ops) @@ (T_sal :> -5)),
                    Row(1, (T_dept :> T_eng) @@ (T_sal :> 75)),
                    Row(2, (T_dept :> T_eng) @@ (T_sal :> 75)),
                    Row(3, (T_dept :> T_hr) @@ (T_sal :> 0)),
                    Row(4, (T_dept :> T_ops) @@ (T_sal :> 300)),
                    Row(5, (T_dept :> T_sales) @@ (T_sal :> 75)),
                    Row(6, (T_dept :> T_eng) @@ (T_sal :> 10)) >>]

\* Numeric columns only; has "age" and lacks "dept".
Ages ==
    [columns |-> <<T_sal, T_age>>,
     dtype   |-> (T_sal :> "i") @@ (T_age :> "i"),
     rows    |-> << Row(0, (T_sal :> 100) @@ (T_age :> 30)),
                    Row(1, (T_sal :> 50) @@ (T_age :> 41)) >>]

Datasets == {Staff, Payroll, Ages}

\* series = df[col]: the cells of one column, in row order.
Column(t, col) == [i \in DOMAIN t.rows |-> t.rows[i].cell[col]]

\* Python's seq[start:stop] for integer bounds (negative bounds count from
\* the end, out-of-range bounds are clipped).
ClipIndex(i, n) ==
    IF i < 0 THEN (IF n + i < 0 THEN 0 ELSE n + i)
    ELSE (IF i > n THEN n ELSE i)

PySlice(s, start, stop) ==
    SubSeq(s, ClipIndex(start, Len(s)) + 1, ClipIndex(stop, Len(s)))

WithRows(t, rows) == [t EXCEPT !.rows = rows]

\* DataFrame.head(n) is self.iloc[:n].
df_head(t, n) == WithRows(t, PySlice(t.rows, 0, n))

\* A variant of tail without the n == 0 case: iloc[-0:] is the whole frame.
df_tail_no_zero_case(t, n) == WithRows(t, PySlice(t.rows, 0 - n, Len(t.rows)))

\* DataFrame.tail(n) is self.iloc[0:0] when n == 0, else self.iloc[-n:].
df_tail(t, n) ==
    IF n = 0 THEN WithRows(t, <<>>)
    ELSE WithRows(t, PySlice(t.rows, 0 - n, Len(t.rows)))

\* df[mask]: the rows whose mask entry is true, order and labels kept.
RECURSIVE SelectRows(_, _)
SelectRows(rows, mask) ==
    IF rows = <<>> THEN <<>>
    ELSE (IF Head(mask) THEN <<Head(rows)>> ELSE <<>>)
         \o SelectRows(Tail(rows), Tail(mask))

df_select(t, mask) == WithRows(t, SelectRows(t.rows, mask))

---------------------------------------------------------------------------
(* What run gives back *)

\* A str built by an f-string: literal fragments and interpolated str.
Lit(s) == [lit |-> s, txt |-> <<>>]
Txt(t) == [lit |-> "", txt |-> t]

StrResult(parts) == [kind |-> "str", parts |-> parts]
TableResult(t) == [kind |-> "table", table |-> t]
ValueResult(v) == [kind |-> "value", val |-> v]
\* An exception that leaves run instead of a return value.
Raised(e) == [kind |-> "raise", exc |-> e]

NoChart == [type |-> "none", cols |-> <<>>, title |-> <<>>, xlabel |-> <<>>]
Chart(type, cols, title, xlabel) ==
    [type |-> type, cols |-> cols, title |-> title, xlabel |-> xlabel]

\* One possible outcome of a call: what is returned (or raised) and the
\* chart handed to plt.show() during the call, if any.
Outcome(ret, shown) == [ret |-> ret, shown |-> shown]

---------------------------------------------------------------------------
(* Series reductions (pandas) *)

RECURSIVE SeqSum(_)
SeqSum(s) == IF s = <<>> THEN 0 ELSE Head(s) + SeqSum(Tail(s))

RECURSIVE SeqConcat(_)
SeqConcat(s) == IF s = <<>> THEN <<>> ELSE Head(s) \o SeqConcat(Tail(s))

Less(kind, a, b) == IF kind = "i" THEN a < b ELSE StrLess(a, b)

Sorted(kind, s) == SortSeq(s, LAMBDA a, b : Less(kind, a, b))

Occurrences(s, v) == Cardinality({i \in DOMAIN s : s[i] = v})

\* The distinct values of s in order of first appearance.
RECURSIVE Distinct(_)
Distinct(s) ==
    IF s = <<>> THEN <<>>
    ELSE LET init == SubSeq(s, 1, Len(s) - 1)
             last == s[Len(s)]
         IN  IF last \in Range(init) THEN Distinct(init)
             ELSE Distinct(init) \o <<last>>

s_mean(s) == IF s = <<>> THEN NaN ELSE Frac(SeqSum(s), Len(s))

s_median(s) ==
    LET n == Len(s)
        o == Sorted("i", s)
    IN  IF n = 0 THEN NaN
        ELSE IF n % 2 = 1 THEN Frac(o[(n + 1) \div 2], 1)
        ELSE Frac(o[n \div 2] + o[n \div 2 + 1], 2)

\* Sample variance (ddof = 1): NaN for fewer than two values.
s_var(s) ==
    LET n == Len(s)
        sq == [i \in DOMAIN s |-> s[i] * s[i]]
    IN  IF n < 2 THEN NaN
        ELSE Frac(n * SeqSum(sq) - SeqSum(s) * SeqSum(s), n * (n - 1))

\* The standard deviation is kept as the square root of a variance.
s_std(s) == [sqrt_of |-> s_var(s)]

s_min(kind, s) == Sorted(kind, s)[1]
s_max(kind, s) == Sorted(kind, s)[Len(s)]

s_mode(kind, s) ==
    LET d == Distinct(s)
        top == {v \in Range(d) : \A w \in Range(d) :
                   Occurrences(s, w) <= Occurrences(s, v)}
    IN  Sorted(kind, SelectSeq(d, LAMBDA v : v \in top))

s_value_counts(s) == [v \in Range(s) |-> Occurrences(s, v)]

\* The reductions that need numbers raise TypeError on a text column.
NeedsNumbers == {T_mean, T_median, T_std, T_var}

\* func(series) for the reductions of single_col_funcs and of groupby.
reduce(func, kind, s) ==
    IF kind = "O" /\ func \in NeedsNumbers THEN Raised("TypeError")
    ELSE ValueResult(
      CASE func = T_mean -> s_mean(s)
        [] func = T_median -> s_median(s)
        [] func = T_mode -> s_mode(kind, s)
        [] func = T_std -> s_std(s)
        [] func = T_var -> s_var(s)
        [] func = T_sum -> IF kind = "i" THEN SeqSum(s) ELSE SeqConcat(s)
        [] func = T_max -> s_max(kind, s)
        [] func = T_min -> s_min(kind, s)
        [] func = T_count -> Len(s)
        [] func = T_unique -> Distinct(s)
        [] func = T_nunique -> Cardinality(Range(s))
        [] func = T_value_counts -> s_value_counts(s))

---------------------------------------------------------------------------
(* DataAnalyzer *)

\* The cross mark that opens every error message.
ErrMark == Lit("[x] ")
\* The chart mark that opens every chart confirmation.
ChartMark == Lit("[chart] ")

Error(parts) == StrResult(<<ErrMark>> \o parts)

IsError(r) == r.kind = "str" /\ r.parts[1] = ErrMark

NoError == [found |-> FALSE, msg |-> StrResult(<<>>)]

\* _validate_columns: the message for the first entry that is non-empty
\* and not a column label, None when there is no such entry.
RECURSIVE validate_columns(_, _)
validate_columns(t, cols) ==
    IF cols = <<>> THEN NoError
    ELSE IF Head(cols) # <<>> /\ Head(cols) \notin Range(t.columns)
      THEN [found |-> TRUE,
            msg |-> Error(<<Lit("Column '"), Txt(Head(cols)),
                            Lit("' not found.")>>)]
    ELSE validate_columns(t, Tail(cols))

help_text == StrResult(<<Lit("Available commands: ...")>>)

\* A summary pandas computes from the whole table (info, describe, corr,
\* cov); its content is not inspected by run.
Summary(prim, t) == [prim |-> prim, of |-> t]

single_col_funcs ==
    {T_mean, T_median, T_mode, T_std, T_var, T_sum, T_max, T_min, T_count,
     T_unique, T_nunique, T_value_counts}

groupby_aggs ==
    {T_mean, T_sum, T_min, T_max, T_count, T_median, T_std, T_var}

filter_ops ==
    {<<"=", "=">>, <<"!", "=">>, <<">">>, <<"<">>, <<">", "=">>, <<"<", "=">>}

\* The functions run dispatches on (help is matched before parsing).
Supported ==
    {T_head, T_tail, T_info, T_describe, T_shape, T_columns, T_dtypes,
     T_missing, T_corr, T_cov, T_groupby, T_filter, T_plot, T_hist,
     T_scatter, T_box, T_heatmap} \cup single_col_funcs

\* head(n) / tail(n): n = 5 unless a first argument is given; the other
\* arguments are ignored.
run_head_tail(t, func, args) ==
    IF args # <<>> /\ ~int_ok(args[1])
    THEN Error(<<Txt(func), Lit("(n) expects integer n")>>)
    ELSE LET n == IF args = <<>> THEN 5 ELSE int_val(args[1])
         IN  TableResult(IF func = T_head THEN df_head(t, n)
                         ELSE df_tail(t, n))

\* The whole-table inspectors; their arguments are ignored.
run_inspect(t, func) ==
    CASE func = T_info -> ValueResult(Summary("info", t))
      [] func = T_describe -> ValueResult(Summary("describe", t))
      [] func = T_shape -> ValueResult(<<Len(t.rows), Len(t.columns)>>)
      [] func = T_columns -> ValueResult(t.columns)
      [] func = T_dtypes -> ValueResult(t.dtype)
      [] func = T_missing -> ValueResult([c \in Range(t.columns) |-> 0])
      [] func = T_corr -> ValueResult(Summary("corr", t))
      [] func = T_cov -> ValueResult(Summary("cov", t))

\* df[col] and df.groupby(col) raise KeyError for a label that is no column.
HasColumn(t, col) == col \in Range(t.columns)

run_single_col(t, func, args) ==
    IF Len(args) # 1
    THEN Error(<<Txt(func), Lit("(col) expects exactly one column")>>)
    ELSE LET err == validate_columns(t, <<args[1]>>)
         IN  IF err.found THEN err.msg
             ELSE IF ~HasColumn(t, args[1]) THEN Raised("KeyError")
             ELSE reduce(func, t.dtype[args[1]], Column(t, args[1]))

\* getattr(df.groupby(group_col)[target_col], agg)(): the reduction of the
\* target cells of each group, keyed by the group's value.
df_groupby(t, group_col, agg, target_col) ==
    IF ~HasColumn(t, group_col) \/ ~HasColumn(t, target_col)
    THEN Raised("KeyError")
    ELSE LET keys == Range(Column(t, group_col))
             kind == t.dtype[target_col]
             cells(k) ==
                 LET rows == SelectSeq(t.rows,
                                LAMBDA r : r.cell[group_col] = k)
                 IN  [i \in DOMAIN rows |-> rows[i].cell[target_col]]
         IN  IF kind = "O" /\ agg \in NeedsNumbers THEN Raised("TypeError")
             ELSE ValueResult([k \in keys |-> reduce(agg, kind, cells(k)).val])

run_groupby(t, args) ==
    IF Len(args) # 3
    THEN Error(<<Lit("groupby(group_col, agg, target_col) required")>>)
    ELSE LET err == validate_columns(t, <<args[1], args[3]>>)
         IN  IF err.found THEN err.msg
             ELSE IF args[2] \notin groupby_aggs
               THEN Error(<<Lit("Unsupported agg. Use mean,sum,min,max,count,median,std,var")>>)
             ELSE df_groupby(t, args[1], args[2], args[3])

\* value_coerced = float(value) if series.dtype.kind in "biufc" else value,
\* falling back to value when float raises ValueError.
Coerced(f) == [num |-> TRUE, f |-> f, s |-> <<>>]
Raw(v) == [num |-> FALSE, f |-> NaN, s |-> v]

coerce(kind, value) ==
    IF kind = "i" /\ float_ok(value) THEN Coerced(float_val(value))
    ELSE Raw(value)

\* An integer cell against a float: x ? num/den with den > 0.  Every
\* comparison with NaN is false except !=.
num_cmp(x, op, f) ==
    LET l == x * f.den
        r == f.num
    IN  CASE op = <<"=", "=">> -> ~f.nan /\ l = r
          [] op = <<"!", "=">> -> f.nan \/ l # r
          [] op = <<">">>      -> ~f.nan /\ l > r
          [] op = <<"<">>      -> ~f.nan /\ l < r
          [] op = <<">", "=">> -> ~f.nan /\ l >= r
          [] op = <<"<", "=">> -> ~f.nan /\ l <= r

str_cmp(a, op, b) ==
    CASE op = <<"=", "=">> -> a = b
      [] op = <<"!", "=">> -> a # b
      [] op = <<">">>      -> StrLess(b, a)
      [] op = <<"<">>      -> StrLess(a, b)
      [] op = <<">", "=">> -> ~StrLess(a, b)
      [] op = <<"<", "=">> -> ~StrLess(b, a)

\* series <op> value_coerced.  An integer column against a str: == is
\* false and != true everywhere, and the ordering operators raise
\* TypeError.
compare_raises(kind, op, v) ==
    kind = "i" /\ ~v.num /\ op \notin {<<"=", "=">>, <<"!", "=">>}

compare(kind, x, op, v) ==
    IF kind = "i"
    THEN (IF v.num THEN num_cmp(x, op, v.f) ELSE op = <<"!", "=">>)
    ELSE str_cmp(x, op, v.s)

\* self.df[series <op> value_coerced] for a supported op.
df_filter(t, col, op, value) ==
    LET kind == t.dtype[col]
        v == coerce(kind, value)
        series == Column(t, col)
    IN  df_select(t, [i \in DOMAIN series |-> compare(kind, series[i], op, v)])

run_filter(t, args) ==
    IF Len(args) # 3
    THEN Error(<<Lit("filter(col, op, value) required")>>)
    ELSE LET err == validate_columns(t, <<args[1]>>)
         IN  IF err.found THEN err.msg
             ELSE IF ~HasColumn(t, args[1]) THEN Raised("KeyError")
             ELSE IF args[2] \notin filter_ops
               THEN Error(<<Lit("Unsupported operator. Use ==, !=, >, <, >=, <=")>>)
             ELSE IF compare_raises(t.dtype[args[1]], args[2],
                                    coerce(t.dtype[args[1]], args[3]))
               THEN Raised("TypeError")
             ELSE TableResult(df_filter(t, args[1], args[2], args[3]))

\* The chart commands.  Each gives the set of its possible outcomes.
\* Series.plot() and DataFrame.plot.box() raise TypeError when there is no
\* numeric data to plot.  Whether Series.hist() and DataFrame.plot.scatter
\* draw a text column as categories or raise depends on the installed
\* pandas and matplotlib, so both outcomes are possible there.  When the
\* plotting call raises, plt.show() is never reached.
Plain(r) == {Outcome(r, NoChart)}

Shown(chart, parts) == Outcome(StrResult(<<ChartMark>> \o parts), chart)

NumericColumns(t) == SelectSeq(t.columns, LAMBDA c : t.dtype[c] = "i")

chart_of(func, col) ==
    CASE func = T_plot ->
           Shown(Chart("line", <<col>>, <<Lit("Plot of "), Txt(col)>>, <<Txt(col)>>),
                 <<Lit("Plot displayed for "), Txt(col)>>)
      [] func = T_hist ->
           Shown(Chart("hist", <<col>>, <<Lit("Histogram of "), Txt(col)>>, <<Txt(col)>>),
                 <<Lit("Histogram displayed for "), Txt(col)>>)
      [] func = T_box ->
           Shown(Chart("box", <<col>>, <<Lit("Box plot of "), Txt(col)>>, <<>>),
                 <<Lit("Box plot displayed for "), Txt(col)>>)

\* plot(col), hist(col), box(col)
run_chart(t, func, args) ==
    IF Len(args) # 1
    THEN Plain(Error(<<Txt(func), Lit("(col) expects one column")>>))
    ELSE LET err == validate_columns(t, <<args[1]>>)
         IN  IF err.found THEN Plain(err.msg)
             ELSE IF ~HasColumn(t, args[1]) THEN Plain(Raised("KeyError"))
             ELSE IF t.dtype[args[1]] = "i" THEN {chart_of(func, args[1])}
             ELSE IF func = T_hist
               THEN {Outcome(Raised("TypeError"), NoChart),
                     chart_of(func, args[1])}
             ELSE Plain(Raised("TypeError"))

run_scatter(t, args) ==
    IF Len(args) # 2
    THEN Plain(Error(<<Lit("scatter(x, y) expects two columns")>>))
    ELSE LET err == validate_columns(t, args)
             drawn == Shown(Chart("scatter", args,
                                  <<Lit("Scatter plot: "), Txt(args[1]),
                                    Lit(" vs "), Txt(args[2])>>, <<>>),
                            <<Lit("Scatter plot displayed for "), Txt(args[1]),
                              Lit(" vs "), Txt(args[2])>>)
         IN  IF err.found THEN Plain(err.msg)
             ELSE IF ~HasColumn(t, args[1]) \/ ~HasColumn(t, args[2])
               THEN Plain(Raised("KeyError"))
             ELSE IF t.dtype[args[1]] = "i" /\ t.dtype[args[2]] = "i"
               THEN {drawn}
             ELSE {Outcome(Raised("TypeError"), NoChart), drawn}

run_heatmap(t) ==
    {Shown(Chart("heatmap", NumericColumns(t),
                 <<Lit("Correlation heatmap")>>, <<>>),
           <<Lit("Heatmap displayed")>>)}

\* A variant of the dispatch whose last message names the function but
\* does not point to help.
dispatch_no_pointer(t, func, args) ==
    IF func \in {T_head, T_tail} THEN Plain(run_head_tail(t, func, args))
    ELSE IF func \in {T_info, T_describe, T_shape, T_columns, T_dtypes,
                      T_missing, T_corr, T_cov}
      THEN Plain(run_inspect(t, func))
    ELSE IF func \in single_col_funcs THEN Plain(run_single_col(t, func, args))
    ELSE IF func = T_groupby THEN Plain(run_groupby(t, args))
    ELSE IF func = T_filter THEN Plain(run_filter(t, args))
    ELSE IF func \in {T_plot, T_hist, T_box} THEN run_chart(t, func, args)
    ELSE IF func = T_scatter THEN run_scatter(t, args)
    ELSE IF func = T_heatmap THEN run_heatmap(t)
    ELSE Plain(Error(<<Lit("Function '"), Txt(func), Lit("' not supported.")>>))

\* The dispatch of run on the parsed function name and arguments.
dispatch(t, func, args) ==
    IF func \in {T_head, T_tail} THEN Plain(run_head_tail(t, func, args))
    ELSE IF func \in {T_info, T_describe, T_shape, T_columns, T_dtypes,
                      T_missing, T_corr, T_cov}
      THEN Plain(run_inspect(t, func))
    ELSE IF func \in single_col_funcs THEN Plain(run_single_col(t, func, args))
    ELSE IF func = T_groupby THEN Plain(run_groupby(t, args))
    ELSE IF func = T_filter THEN Plain(run_filter(t, args))
    ELSE IF func \in {T_plot, T_hist, T_box} THEN run_chart(t, func, args)
    ELSE IF func = T_scatter THEN run_scatter(t, args)
    ELSE IF func = T_heatmap THEN run_heatmap(t)
    ELSE Plain(Error(<<Lit("Function '"), Txt(func),
                       Lit("' not supported. Type 'help' for options.")>>))

\* DataAnalyzer.run(command): the set of its possible outcomes on table t.
run(t, command) ==
    LET c == strip(command)
        m == re_match(c)
    IN  IF c = <<>> THEN Plain(Error(<<Lit("Empty command")>>))
        ELSE IF c = T_help THEN Plain(help_text)
        ELSE IF ~m.ok THEN Plain(Error(<<Lit("Invalid command: "), Txt(c)>>))
        ELSE dispatch(t, m.func, parse_args(m.argstr))

\* A variant of run that keeps the table it hands back: head, tail and
\* filter would then narrow the analyzer's own table.
df_after_run_inplace(t, command) ==
    LET o == CHOOSE x \in run(t, command) : TRUE
    IN  IF o.ret.kind = "table" THEN o.ret.table ELSE t

\* The table held by the analyzer after run has returned or raised: run
\* never assigns self.df and calls no in-place operation on it.
df_after_run(t, command) == t

---------------------------------------------------------------------------
(* The inputs of the model *)

\* Longest command drawn character by character from RawAlphabet.
MaxRaw == 4
\* Most arguments of a generated call.
MaxArgs == 3
\* Largest count given to head and tail (the datasets have up to 7 rows).
MaxCount == 8
\* Most lines read by the interactive loop.
MaxLines == 2
\* Most calls of run in one session of direct calls.
MaxCalls == 3

RawAlphabet == {"f", "5", "(", ")", ",", " "}

RECURSIVE SeqsUpTo(_, _)
SeqsUpTo(S, n) ==
    IF n = 0 THEN {<<>>}
    ELSE LET shorter == SeqsUpTo(S, n - 1)
         IN  shorter \cup {Append(q, x) : q \in shorter, x \in S}

RawCommands == SeqsUpTo(RawAlphabet, MaxRaw)

RECURSIVE Join(_)
Join(args) ==
    IF args = <<>> THEN <<>>
    ELSE IF Len(args) = 1 THEN args[1]
    ELSE args[1] \o <<",">> \o Join(Tail(args))

Call(func, args) == func \o <<"(">> \o Join(args) \o <<")">>

RECURSIVE NatText(_)
NatText(n) ==
    IF n < 10 THEN <<Digits[n + 1]>>
    ELSE NatText(n \div 10) \o <<Digits[(n % 10) + 1]>>

IntText(n) == IF n < 0 THEN <<"-">> \o NatText(0 - n) ELSE NatText(n)

T_foo == <<"f", "o", "o">>

FuncNames == Supported \cup {T_help, T_foo}

\* Arguments tried with every function: the column names of the datasets,
\* a blank, a name that is a function and an aggregate, and a number.
CoreArgs == {T_dept, T_sal, T_age, <<>>, T_mean, <<"2">>}

CallCommands ==
    FuncNames \cup
    {Call(f, args) : f \in FuncNames, args \in SeqsUpTo(CoreArgs, MaxArgs)}

FilterValues ==
    {<<"7", "5">>, <<"7", "5", ".", "0">>, <<"7", "4", ".", "5">>,
     <<"-", "2">>, <<"1", "0", "0">>, <<"n", "a", "n">>, T_eng, T_sales,
     <<"a", "b", "c">>}

FilterCommands ==
    {Call(T_filter, <<c, op, v>>) :
        c \in {T_dept, T_sal, T_age},
        op \in filter_ops \cup {<<"~">>, <<"=", ">">>},
        v \in FilterValues}

GroupbyCommands ==
    {Call(T_groupby, <<g, a, c>>) :
        g \in {T_dept, T_sal, T_age},
        a \in groupby_aggs \cup {T_mode, T_nunique},
        c \in {T_dept, T_sal, T_age}}

CountTexts ==
    {IntText(n) : n \in (0 - MaxCount)..MaxCount}
    \cup {<<"+", "3">>, <<"1", "_", "0">>, <<"0", "2">>, <<"2", ".", "0">>,
          <<"x">>, <<"_", "1">>, <<"-">>, <<"2", " ", "2">>}

CountCommands ==
    {Call(f, <<n>>) : f \in {T_head, T_tail}, n \in CountTexts}
    \cup {Call(f, <<n, T_sal>>) : f \in {T_head, T_tail},
                                  n \in {<<"2">>, <<"x">>, <<>>}}

\* Surrounding whitespace, a newline inside the parentheses, nesting.
PaddedCommands ==
    {<<" ", "\t">> \o Call(T_mean, <<<<" ">> \o T_sal \o <<" ">>>>) \o <<"\n">>,
     <<" ">> \o T_help \o <<" ">>,
     Call(T_head, <<<<" ", "2", " ">>>>),
     Call(T_foo, <<<<"a", "\n", "b">>>>),
     Call(T_mean, <<Call(<<>>, <<T_sal>>)>>),
     Call(T_mean, <<T_sal>>) \o <<")">>,
     Call(T_shape, <<T_sal>>) \o Call(<<>>, <<T_sal>>),
     Call(T_filter, <<<<" ">> \o T_sal, <<" ", ">", " ">>, <<"7", "5", " ">>>>),
     <<"\n">>}

Commands ==
    RawCommands \cup CallCommands \cup FilterCommands \cup GroupbyCommands
    \cup CountCommands \cup PaddedCommands

\* The lines typed at the prompt or given as --cmd: one of each kind of
\* success and failure.
Lines ==
    {T_help,
     T_shape,
     Call(T_foo, <<<<"5">>>>),
     T_foo \o <<"(">>,
     Call(T_head, <<<<"x">>>>),
     Call(T_head, <<<<"2">>>>),
     Call(T_mean, <<>>),
     Call(T_mean, <<T_age>>),
     Call(T_mean, <<T_dept>>),
     Call(T_groupby, <<<<>>, T_mean, T_sal>>),
     Call(T_groupby, <<T_sal, T_mode, T_sal>>),
     Call(T_filter, <<T_sal, <<"~">>, <<"1">>>>),
     Call(T_filter, <<T_sal, <<">">>, <<"7", "5">>>>),
     Call(T_plot, <<T_sal>>)}

BlankLines == {<<>>, <<" ">>}

\* The first direct call of a session is any command; the calls after it
\* are drawn from Lines.
Inputs(n) == IF n = 0 THEN Commands ELSE Lines

---------------------------------------------------------------------------
(* State *)

VARIABLES
    df,        \* self.df, the table held by the analyzer
    command,   \* the argument of the latest call of run
    result,    \* what that call returned or raised
    shown,     \* the chart that call handed to plt.show(), if any
    pc,        \* where main is: "api" when run is called directly
    cmd_opt,   \* args.cmd
    repl_opt,  \* args.repl
    stdout,    \* what main has printed, in order
    calls,     \* how many times main has called analyzer.run
    reads      \* how many lines the interactive loop has read

vars == <<df, command, result, shown, pc, cmd_opt, repl_opt, stdout, calls, reads>>

NoResult == [kind |-> "none"]

None == [given |-> FALSE, text |-> <<>>]
Some(t) == [given |-> TRUE, text |-> t]

\* DataAnalyzer(filepath): after construction the analyzer holds the table.
Init ==
    /\ df \in Datasets
    /\ command = <<>>
    /\ result = NoResult
    /\ shown = NoChart
    /\ pc = "api"
    /\ cmd_opt = None
    /\ repl_opt = FALSE
    /\ stdout = <<>>
    /\ calls = 0
    /\ reads = 0

\* A caller invokes analyzer.run(c).
Run(c) ==
    /\ pc = "api"
    /\ calls < MaxCalls
    /\ \E o \in run(df, c) :
          /\ result' = o.ret
          /\ shown' = o.shown
    /\ command' = c
    /\ df' = df_after_run(df, c)
    /\ calls' = calls + 1
    /\ UNCHANGED <<pc, cmd_opt, repl_opt, stdout, reads>>

Next == \E c \in Inputs(calls) : Run(c)

Spec == Init /\ [][Next]_vars

---------------------------------------------------------------------------
(* main (cli.py) *)

Banner == StrResult(<<Lit("Type 'help' to list commands. Press Ctrl+C to exit.")>>)
Farewell == StrResult(<<Lit("\nGoodbye")>>)

\* Truth value of args.cmd: None and "" are false.
Truthy(opt) == opt.given /\ opt.text # <<>>

\* parse_args() and DataAnalyzer(args.file): --cmd is absent or any str.
InitCli ==
    /\ df \in Datasets
    /\ command = <<>>
    /\ result = NoResult
    /\ shown = NoChart
    /\ pc = "main"
    /\ cmd_opt \in {None} \cup {Some(c) : c \in Lines \cup BlankLines}
    /\ repl_opt \in BOOLEAN
    /\ stdout = <<>>
    /\ calls = 0
    /\ reads = 0

\* out = analyzer.run(c); print(out).  An exception raised by run is
\* caught nowhere in main (only KeyboardInterrupt is): it ends the program
\* with a traceback, and nothing is printed for the call.
Dispatch(c, next_pc) ==
    /\ \E o \in run(df, c) :
          /\ result' = o.ret
          /\ shown' = o.shown
          /\ IF o.ret.kind = "raise"
             THEN pc' = "crashed" /\ stdout' = stdout
             ELSE pc' = next_pc /\ stdout' = Append(stdout, o.ret)
    /\ command' = c
    /\ df' = df_after_run(df, c)
    /\ calls' = calls + 1

\* if args.cmd: out = analyzer.run(args.cmd); print(out); return
SingleCommand ==
    /\ pc = "main"
    /\ Truthy(cmd_opt)
    /\ Dispatch(cmd_opt.text, "exit")
    /\ UNCHANGED <<cmd_opt, repl_opt, reads>>

\* if args.repl or not args.cmd: print the banner and enter the loop
EnterLoop ==
    /\ pc = "main"
    /\ ~Truthy(cmd_opt)
    /\ repl_opt \/ ~Truthy(cmd_opt)
    /\ pc' = "loop"
    /\ stdout' = Append(stdout, Banner)
    /\ UNCHANGED <<df, command, result, shown, cmd_opt, repl_opt, calls, reads>>

\* raw = input(">> ").strip(); a blank line is skipped, any other line is
\* dispatched and its result printed.
ReadLine(line) ==
    /\ pc = "loop"
    /\ reads < MaxLines
    /\ reads' = reads + 1
    /\ LET raw == strip(line)
       IN  IF raw = <<>>
           THEN UNCHANGED <<df, command, result, shown, pc, stdout, calls>>
           ELSE Dispatch(raw, "loop")
    /\ UNCHANGED <<cmd_opt, repl_opt>>

\* Ctrl+C while the loop waits: except KeyboardInterrupt prints the farewell.
Interrupt ==
    /\ pc = "loop"
    /\ pc' = "exit"
    /\ stdout' = Append(stdout, Farewell)
    /\ UNCHANGED <<df, command, result, shown, cmd_opt, repl_opt, calls, reads>>

\* End of input: input() raises EOFError, which main does not catch.
EndOfInput ==
    /\ pc = "loop"
    /\ pc' = "crashed"
    /\ UNCHANGED <<df, command, result, shown, cmd_opt, repl_opt, stdout, calls, reads>>

NextCli ==
    \/ SingleCommand
    \/ EnterLoop
    \/ \E line \in Lines \cup BlankLines : ReadLine(line)
    \/ Interrupt
    \/ EndOfInput

SpecCli == InitCli /\ [][NextCli]_vars

---------------------------------------------------------------------------
(* Properties *)

\* The latest call of run, as run itself parsed it.
Called == result.kind # "none"
Stripped == strip(command)
Parsed == Called /\ Stripped # <<>> /\ Stripped # T_help /\ re_match(Stripped).ok
Func == re_match(Stripped).func
Args == parse_args(re_match(Stripped).argstr)

ColumnNotFound(col) ==
    Error(<<Lit("Column '"), Txt(col), Lit("' not found.")>>)

\* The column arguments of a column-referencing command that has the
\* number of arguments its operation takes; <<>> for any other command.
ReferencedColumns ==
    IF Func \in single_col_funcs \cup {T_plot, T_hist, T_box} /\ Len(Args) = 1
      THEN <<Args[1]>>
    ELSE IF Func = T_groupby /\ Len(Args) = 3 THEN <<Args[1], Args[3]>>
    ELSE IF Func = T_filter /\ Len(Args) = 3 THEN <<Args[1]>>
    ELSE IF Func = T_scatter /\ Len(Args) = 2 THEN Args
    ELSE <<>>

\* C1: run is total: every call returns a value or an error string and
\* never raises an exception to the caller.
C1_RunNeverRaises == result.kind # "raise"

\* C2: when a referenced column of a column-referencing command is absent
\* from the table's columns, run returns the error string naming such a
\* column, computes nothing and renders no chart.
C2_MissingColumnIsNamed ==
    (Parsed /\ \E i \in DOMAIN ReferencedColumns :
                   ~HasColumn(df, ReferencedColumns[i]))
    => /\ \E i \in DOMAIN ReferencedColumns :
            /\ ~HasColumn(df, ReferencedColumns[i])
            /\ result = ColumnNotFound(ReferencedColumns[i])
       /\ shown = NoChart

\* C3: the loaded table is never mutated: no call of run, successful or
\* not, changes the analyzer's table (columns, rows, row order); filter
\* and head hand back derived tables.
C3_TableNeverMutated == [][df' = df]_vars

\* C3 witness: a session of several calls has just filtered the table
\* down to a strictly smaller derived table.
C3_Witness ==
    /\ calls = MaxCalls
    /\ Parsed /\ Func = T_filter
    /\ result.kind = "table"
    /\ Len(result.table.rows) < Len(df.rows)
    /\ result.table.rows # <<>>

Min(a, b) == IF a < b THEN a ELSE b

IntegerCounts == (0 - MaxCount)..MaxCount

NonIntegerTexts ==
    {<<"2", ".", "0">>, <<"x">>, <<"_", "1">>, <<"-">>, <<"2", " ", "2">>}

HeadTailError(f) == Error(<<Txt(f), Lit("(n) expects integer n")>>)

\* The first k rows / the last k rows of the loaded table, 0 <= k <= length.
FirstRows(k) == SubSeq(df.rows, 1, k)
LastRows(k) == SubSeq(df.rows, Len(df.rows) - k + 1, Len(df.rows))

IsDerived(rows) ==
    /\ result.kind = "table"
    /\ result.table.columns = df.columns
    /\ result.table.rows = rows

\* C4 as claimed: for every integer n, head(n) and tail(n) return exactly
\* n rows, or all rows when n exceeds the row count, from the start and
\* the end of the table.
C4_ExactlyNRows ==
    \A n \in IntegerCounts :
        /\ command = Call(T_head, <<IntText(n)>>)
             => /\ result.kind = "table"
                /\ Len(result.table.rows) =
                     (IF n > Len(df.rows) THEN Len(df.rows) ELSE n)
        /\ command = Call(T_tail, <<IntText(n)>>)
             => /\ result.kind = "table"
                /\ Len(result.table.rows) =
                     (IF n > Len(df.rows) THEN Len(df.rows) ELSE n)

\* C4 amended: for every integer n >= 0, head(n) returns the first
\* min(n, rows) rows and tail(n) the last min(n, rows) rows, in original
\* order; for n < 0, head(n) returns all rows but the last |n| and tail(n)
\* all rows but the first |n|; with no argument n is 5; a non-integer
\* argument yields the error string.
C4_HeadTailRows ==
    LET L == Len(df.rows)
    IN  /\ \A n \in IntegerCounts :
              /\ command = Call(T_head, <<IntText(n)>>)
                   => IsDerived(IF n >= 0 THEN FirstRows(Min(n, L))
                                ELSE FirstRows(L - Min(0 - n, L)))
              /\ command = Call(T_tail, <<IntText(n)>>)
                   => IsDerived(IF n >= 0 THEN LastRows(Min(n, L))
                                ELSE LastRows(L - Min(0 - n, L)))
        /\ command \in {T_head, Call(T_head, <<>>)}
             => IsDerived(FirstRows(Min(5, L)))
        /\ command \in {T_tail, Call(T_tail, <<>>)}
             => IsDerived(LastRows(Min(5, L)))
        /\ \A x \in NonIntegerTexts : \A f \in {T_head, T_tail} :
              command = Call(f, <<x>>) => result = HeadTailError(f)

\* C4 witness: tail with a negative count has dropped leading rows and
\* kept the rest.
C4_Witness ==
    /\ command = Call(T_tail, <<IntText(-2)>>)
    /\ result.kind = "table"
    /\ Len(df.rows) = 7
    /\ Len(result.table.rows) = 5
    /\ result.table.rows[1].ix = 2

\* The rows of the loaded table that satisfy col <op> value, in order.
Matching(col, op, value) ==
    SelectSeq(df.rows,
              LAMBDA r : compare(df.dtype[col], r.cell[col], op,
                                 coerce(df.dtype[col], value)))

\* C5: filter(col, op, value) with an existing column and a supported
\* operator returns a table holding exactly the rows that satisfy the
\* predicate, in original order, and filtering that table again with the
\* same predicate returns the same table.
C5_FilterSelectsRows ==
    (Parsed /\ Func = T_filter /\ Len(Args) = 3
       /\ HasColumn(df, Args[1]) /\ Args[2] \in filter_ops)
    => /\ IsDerived(Matching(Args[1], Args[2], Args[3]))
       /\ df_filter(result.table, Args[1], Args[2], Args[3]) = result.table

NotSupported(f) ==
    Error(<<Lit("Function '"), Txt(f),
            Lit("' not supported. Type 'help' for options.")>>)

\* C6: a command whose function name is not a supported operation gets
\* the error string that names the function and points to 'help',
\* whatever its arguments are; nothing is rendered.
C6_UnknownFunction ==
    (Parsed /\ Func \notin Supported)
    => /\ result = NotSupported(Func)
       /\ shown = NoChart

\* C6 witness: an unknown function called with three arguments, one of
\* them a column name, was answered with the error naming it.
C6_Witness ==
    /\ Parsed
    /\ Func = T_foo
    /\ Len(Args) = 3
    /\ T_sal \in Range(Args)
    /\ result = NotSupported(T_foo)

\* The grammar of a command: a name made of word characters, optionally
\* followed by one parenthesized argument list; the arguments hold no
\* parenthesis and no line break.
InGrammar(c) ==
    \E k \in 1..Len(c) :
        /\ \A i \in 1..k : c[i] \in WordChars
        /\ \/ k = Len(c)
           \/ /\ Len(c) >= k + 2
              /\ c[k + 1] = "("
              /\ c[Len(c)] = ")"
              /\ \A i \in (k + 2)..(Len(c) - 1) : c[i] \notin {"(", ")", "\n"}

EmptyCommand == Error(<<Lit("Empty command")>>)
InvalidCommand(c) == Error(<<Lit("Invalid command: "), Txt(c)>>)

\* C8: the parser classifies every input line: blank input yields the
\* 'Empty command' error, input outside the grammar yields the 'Invalid
\* command' error holding the offending text, and only input inside the
\* grammar reaches an operation.
C8_ParserClassifies ==
    Called =>
      /\ Stripped = <<>> => result = EmptyCommand
      /\ (Stripped # <<>> /\ ~InGrammar(Stripped))
           => result = InvalidCommand(Stripped)
      /\ (Stripped # <<>> /\ result # InvalidCommand(Stripped))
           => InGrammar(Stripped)

\* The cells of target for the rows whose group cell is k.
GroupCells(group, target, k) ==
    LET rows == SelectSeq(df.rows, LAMBDA r : r.cell[group] = k)
    IN  [i \in DOMAIN rows |-> rows[i].cell[target]]

\* C9: groupby with three arguments and an aggregate outside the
\* supported set returns an error string; with a supported aggregate and
\* existing columns it returns the aggregate of the target column for each
\* distinct value of the group column.
C9_GroupbyAggregates ==
    (Parsed /\ Func = T_groupby /\ Len(Args) = 3)
    => /\ Args[2] \notin groupby_aggs => IsError(result)
       /\ (Args[2] \in groupby_aggs /\ HasColumn(df, Args[1])
             /\ HasColumn(df, Args[3]))
            => /\ result.kind = "value"
               /\ DOMAIN result.val = Range(Column(df, Args[1]))
               /\ \A k \in DOMAIN result.val :
                     ValueResult(result.val[k]) =
                        reduce(Args[2], df.dtype[Args[3]],
                               GroupCells(Args[1], Args[3], k))

\* C7: in interactive mode no command ends the session: the result of
\* every dispatched line is printed and the loop goes on to read the next
\* line; the loop ends only on a user interrupt, which prints the farewell
\* message.
C7_LoopEndsOnlyOnInterrupt ==
    [][pc = "loop" =>
         \/ /\ pc' = "loop"
            /\ calls' = calls + 1 => stdout' = Append(stdout, result')
         \/ /\ pc' = "exit"
            /\ stdout' = Append(stdout, Farewell)]_vars

\* C10: when --cmd is supplied, exactly one command is dispatched, its
\* result is printed and the program ends without entering the
\* interactive loop, whatever --repl says; the loop is entered only when
\* --cmd is not supplied.
C10_SingleCommandMode ==
    /\ cmd_opt.given
         => /\ pc \in {"main", "exit"}
            /\ pc = "exit" => (calls = 1 /\ stdout = <<result>>)
    /\ pc = "loop" => ~cmd_opt.given

=============================================================================
